---- MODULE Spec2Model ----
(***************************************************************************)
(* Model of jrmwng::deferred_printf (include/deferred_printf.h and         *)
(* src/deferred_printf.cpp): a fixed-capacity char buffer into which        *)
(* log() placement-constructs Cdeferred_printf_log<Ttokens...> objects     *)
(* back to back, an iterator that walks the buffer by asking each object   *)
(* its size(), and apply(), which replays every object through a           *)
(* vprintf-like callback and sums the non-negative results.                *)
(*                                                                         *)
(* Object layout follows the Itanium C++ ABI on x86-64 with libstdc++'s    *)
(* std::tuple (elements stored last-to-first).  Pointers are numbers;      *)
(* m_buffer is indexed by the offset from m_buffer.data().                  *)
(***************************************************************************)
EXTENDS Integers, Sequences, FiniteSets, TLC

(* ------------------------------------------------------------------ *)
(* Bounds and program constants                                       *)
(* ------------------------------------------------------------------ *)

\* Largest zuCAPACITY instantiated (tests/test_deferred_printf.cpp:55 uses 64).
MaxCapacity == 64

\* The instantiated capacities: the largest one, and one that two 24-byte
\* records miss by a single byte.  All are <= 4000, i.e. buffer_t is std::array.
Capacities == {MaxCapacity - 17, MaxCapacity}

\* Values of m_buffer.data().
DataAddrs == {4096, 4104}

\* INT_MAX of the `int` that apply() sums in.
INT_MAX == 2147483647

\* Size of the vtable pointer every Ideferred_printf_log starts with.
VptrSize == 8

\* Format string references passed to operator() (addresses of literals).
FormatRefs == {101, 102}

\* sizeof and alignof of the token types.
TypeSize == [ptr |-> 8, int |-> 4, char |-> 1, float |-> 4, double |-> 8, ldouble |-> 16]

TypeAlign == [ptr |-> 8, int |-> 4, char |-> 1, float |-> 4, double |-> 8, ldouble |-> 16]

\* A token is a typed value [t |-> type, v |-> value].
Tok(t, v) == [t |-> t, v |-> v]

\* The argument lists (tArgs...) the callers pass after the format.
ArgLists ==
    { <<>>,
      << Tok("float", 2), Tok("char", 3) >>,
      << Tok("ldouble", 4) >> }

\* The callbacks passed to apply().
Callbacks == {"zero", "count", "huge"}

(* ------------------------------------------------------------------ *)
(* Pure helpers                                                       *)
(* ------------------------------------------------------------------ *)

Max(a, b) == IF a >= b THEN a ELSE b

AlignUp(n, a) == ((n + a - 1) \div a) * a

Types(tTokens) == [i \in 1..Len(tTokens) |-> tTokens[i].t]

Values(tTokens) == [i \in 1..Len(tTokens) |-> tTokens[i].v]

\* std::tuple<Ttokens...>: element i is laid out after elements i+1..n.
RECURSIVE TupleEnd(_, _)
TupleEnd(sig, i) ==
    IF i > Len(sig) THEN 0
    ELSE AlignUp(TupleEnd(sig, i + 1), TypeAlign[sig[i]]) + TypeSize[sig[i]]

TupleElemOffset(sig, i) == AlignUp(TupleEnd(sig, i + 1), TypeAlign[sig[i]])

RECURSIVE TupleAlign(_, _)
TupleAlign(sig, i) ==
    IF i > Len(sig) THEN 1
    ELSE Max(TypeAlign[sig[i]], TupleAlign(sig, i + 1))

TupleSize(sig) == AlignUp(TupleEnd(sig, 1), TupleAlign(sig, 1))

\* alignof(Cdeferred_printf_log<Ttokens...>)
AlignofTlog(sig) == Max(VptrSize, TupleAlign(sig, 1))

\* offset of m_tupleToken inside Cdeferred_printf_log<Ttokens...>
TupleOffset(sig) == AlignUp(VptrSize, TupleAlign(sig, 1))

\* sizeof(Cdeferred_printf_log<Ttokens...>)
SizeofTlog(sig) == AlignUp(TupleOffset(sig) + TupleSize(sig), AlignofTlog(sig))

\* offset of token i inside the object
TokenOffset(sig, i) == TupleOffset(sig) + TupleElemOffset(sig, i)

(* ------------------------------------------------------------------ *)
(* State                                                              *)
(* ------------------------------------------------------------------ *)

VARIABLES
    zuCAPACITY,   \* template parameter of this deferred_printf instance
    data,         \* m_buffer.data()
    intOverflow,  \* what this build does on signed overflow of nSum += nCount,
                  \* "unseen" until the first overflow shows it
    m_zuLength,   \* deferred_printf_logger::m_zuLength
    m_buffer,     \* deferred_printf_logger::m_buffer, offset -> byte
    pc,           \* "idle", or "loop" while the caller is inside apply()
    fnCallback,   \* apply()'s parameter
    it,           \* the range-for's iterator (m_pBuffer)
    itEnd,        \* the range-for's end iterator (m_pBuffer)
    nSum,         \* apply()'s local
    calls,        \* history: callback invocations of the running pass
    results,      \* history: what each of them returned
    call,         \* history: the last operation and its outcome
    recorded,     \* history: the log() calls that returned normally
    passes,       \* history: the last completed pass, if no record was stored since
    failSince,    \* history: a log() threw, and no record was stored and no
                  \* pass completed since
    pfnVprintf,   \* the curried apply()'s lambda: captured function
    tParams,      \* the curried apply()'s lambda: captured leading parameters
    pfnCalls,     \* history: invocations of pfnVprintf in the running pass
    itUser,       \* an iterator the caller took from begin() and holds: its
                  \* m_pLog (p), and as history the increments made (k) and
                  \* the records stored when it was taken (n0)
    thr,          \* per calling thread, its position in log(): pc, the tokens
                  \* being logged, the m_zuLength it read (len), and as history
                  \* the calls it made (n) and the formats it stored (ok)
    lock,         \* the callers' own lock: its holder, 0 when free
    overlapped    \* history: a log() call began while another was under way

vars == << zuCAPACITY, data, intOverflow, m_zuLength, m_buffer, pc, fnCallback,
           it, itEnd, nSum, calls, results, call, recorded, passes, failSince,
           pfnVprintf, tParams, pfnCalls, itUser, thr, lock, overlapped >>

curried == << pfnVprintf, tParams, pfnCalls >>

callers == << thr, lock, overlapped >>

arena == << zuCAPACITY, data, m_zuLength, m_buffer >>

locals == << fnCallback, it, itEnd, nSum, calls, results >>

(* ------------------------------------------------------------------ *)
(* Bytes of the buffer                                                *)
(* ------------------------------------------------------------------ *)

\* A byte never written (std::array<char, N> is not filled, line 187).
Uninit == << "?", <<>>, 0 >>

\* Byte k of the vtable pointer of Cdeferred_printf_log<sig>.
VptrByte(sig, k) == << "vptr", sig, k >>

\* Byte k of a tuple element holding value v.
TokByte(v, k) == << "tok", << v >>, k >>

\* The bytes `new (p) Tlog(tTokens...)` writes: the vtable pointer and the
\* tuple elements; padding bytes keep what they held.
ObjectBytes(tTokens) ==
    LET sig == Types(tTokens) IN
    [k \in 0..(VptrSize - 1) |-> VptrByte(sig, k)] @@
    [k \in UNION { TokenOffset(sig, i)..(TokenOffset(sig, i) + TypeSize[sig[i]] - 1) :
                   i \in 1..Len(sig) } |->
        LET i == CHOOSE j \in 1..Len(sig) :
                    k \in TokenOffset(sig, j)..(TokenOffset(sig, j) + TypeSize[sig[j]] - 1)
        IN TokByte(tTokens[i].v, k - TokenOffset(sig, i))]

\* Mutant of Construct: the placement address ignores the write offset.
ConstructAtStart(buf, o, tTokens) ==
    LET bytes == ObjectBytes(tTokens) IN
    [p \in DOMAIN buf |-> IF p \in DOMAIN bytes THEN bytes[p] ELSE buf[p]]

\* Placement new of Tlog(tTokens...) at offset o of buf.
Construct(buf, o, tTokens) ==
    LET bytes == ObjectBytes(tTokens) IN
    [p \in DOMAIN buf |-> IF (p - o) \in DOMAIN bytes THEN bytes[p - o] ELSE buf[p]]

\* A complete vtable pointer starts at offset o.
HasVptr(buf, o) ==
    /\ o \in DOMAIN buf
    /\ (o + VptrSize - 1) \in DOMAIN buf
    /\ \A k \in 0..(VptrSize - 1) :
          /\ buf[o + k][1] = "vptr"
          /\ buf[o + k][3] = k
          /\ buf[o + k][2] = buf[o][2]

\* The concrete type the vtable pointer at o stands for.
DynamicType(buf, o) == buf[o][2]

\* A complete element of type t starts at offset a.
HasToken(buf, a, t) ==
    /\ a \in DOMAIN buf
    /\ (a + TypeSize[t] - 1) \in DOMAIN buf
    /\ \A k \in 0..(TypeSize[t] - 1) :
          /\ buf[a + k][1] = "tok"
          /\ buf[a + k][3] = k
          /\ buf[a + k][2] = buf[a][2]

\* A fully constructed Cdeferred_printf_log object starts at offset o.
IsObjectAt(buf, o) ==
    /\ HasVptr(buf, o)
    /\ LET sig == DynamicType(buf, o) IN
       \A i \in 1..Len(sig) : HasToken(buf, o + TokenOffset(sig, i), sig[i])

\* m_tupleToken of the object at offset o.
TupleAt(buf, o) ==
    LET sig == DynamicType(buf, o) IN
    [i \in 1..Len(sig) |-> Tok(sig[i], buf[o + TokenOffset(sig, i)][2][1])]

(* ------------------------------------------------------------------ *)
(* deferred_printf_logger                                             *)
(* ------------------------------------------------------------------ *)

\* Mutant of Fits: only the record's first byte is required to be in range.
FitsStartOnly(len, size, cap) == len <= cap

\* Mutant of Fits: a record that would exactly fill the arena is rejected.
FitsStrict(len, size, cap) == len + size < cap

\* The capacity test of log().
Fits(len, size, cap) == len + size <= cap

\* Mutant of LogOutcome: the write offset is advanced before the capacity test.
LogOutcomeAdvanceFirst(buf, len, cap, tTokens) ==
    LET size == SizeofTlog(Types(tTokens)) IN
    IF len + size <= cap
    THEN [buffer |-> Construct(buf, len, tTokens), length |-> len + size, thrown |-> FALSE]
    ELSE [buffer |-> buf, length |-> len + size, thrown |-> TRUE]

\* Mutant of LogOutcome: a full arena is emptied before the exception is thrown.
LogOutcomeResetOnFull(buf, len, cap, tTokens) ==
    LET size == SizeofTlog(Types(tTokens)) IN
    IF len + size <= cap
    THEN [buffer |-> Construct(buf, len, tTokens), length |-> len + size, thrown |-> FALSE]
    ELSE [buffer |-> buf, length |-> 0, thrown |-> TRUE]

\* Mutant of LogOutcome: a full arena grows its storage to take the record.
LogOutcomeGrow(buf, len, cap, tTokens) ==
    LET size == SizeofTlog(Types(tTokens))
        grown == [i \in 0..(Max(len + size, cap) - 1) |->
                     IF i \in DOMAIN buf THEN buf[i] ELSE Uninit]
    IN
    [buffer |-> Construct(grown, len, tTokens), length |-> len + size, thrown |-> FALSE]

\* log(tTokens...): what it leaves in m_buffer and m_zuLength, and whether it
\* throws std::bad_alloc.
LogOutcome(buf, len, cap, tTokens) ==
    LET size == SizeofTlog(Types(tTokens)) IN
    IF Fits(len, size, cap)
    THEN [buffer |-> Construct(buf, len, tTokens), length |-> len + size, thrown |-> FALSE]
    ELSE [buffer |-> buf, length |-> len, thrown |-> TRUE]

\* begin() / begin() const
begin == data

\* end() / end() const
end == data + m_zuLength

(* ------------------------------------------------------------------ *)
(* deferred_printf_log_iterator                                       *)
(* ------------------------------------------------------------------ *)

\* operator!=
IterNe(p, q) == p /= q

\* operator*: the iterator refers to the bytes at its m_pBuffer.
IterDeref(p) == p - data

\* Mutant of SizeAt: size() reports the tuple only, without the vtable pointer.
SizeAtPayloadOnly(buf, o) == TupleSize(DynamicType(buf, o))

\* Ideferred_printf_log::size() of the object at offset o (virtual call).
SizeAt(buf, o) == SizeofTlog(DynamicType(buf, o))

\* Mutant of IterInc: every record is taken to be as large as the first one.
IterIncFixed(buf, p) == p + SizeAt(buf, 0)

\* Mutant of IterInc: the step is rounded up to a multiple of 16.
IterIncPadded(buf, p) == p + AlignUp(SizeAt(buf, IterDeref(p)), 16)

\* operator++ on an iterator at a constructed object.
IterInc(buf, p) == p + SizeAt(buf, IterDeref(p))

(* ------------------------------------------------------------------ *)
(* Replaying one object                                               *)
(* ------------------------------------------------------------------ *)

\* Default argument promotion of a value passed through `...`.
Promote(tok) ==
    CASE tok.t = "char"  -> Tok("int", tok.v)
      [] tok.t = "float" -> Tok("double", tok.v)
      [] OTHER           -> tok

\* vprintf_wrapper::operator()(pcFormat, ...): the callback invocation it makes,
\* [fmt |-> the format, args |-> the contents of the va_list].
WrapperCall(pcFormat, tArgs) ==
    [fmt |-> pcFormat, args |-> [i \in 1..Len(tArgs) |-> Promote(tArgs[i])]]

\* The vprintf-like functions handed to the curried apply(), each with the
\* leading parameters bound to it: vsnprintf(buffer, size, ...) and
\* vfprintf(file, ...).
CurriedCalls ==
    { [pfn |-> "vsnprintf", params |-> << 500, 9 >>],
      [pfn |-> "vfprintf", params |-> << 7 >>] }

\* What a vprintf-like function returns for its positional arguments (leading
\* parameters, format, variable arguments): the length of the rendered text,
\* negative for the format it cannot render.
PfnResult(pfn, pos, nLeading) ==
    IF pos[nLeading + 1] = 102 THEN -1 ELSE Len(pos) - nLeading

\* Mutant of LambdaCall: the bound parameters are passed after the format.
LambdaCallParamsLast(params, inv) ==
    << inv.fmt >> \o params \o Values(inv.args)

\* The lambda of the curried apply(): pfnVprintf(tParams..., pcFormat, vaArgs),
\* as the list of positional arguments it passes.
LambdaCall(params, inv) ==
    params \o << inv.fmt >> \o Values(inv.args)

\* The callbacks: what each returns for an invocation.
\*   zero   returns 0, like the tests' lambdas;
\*   count  a vsnprintf-like count, negative for the format it cannot render;
\*   huge   a vsnprintf(nullptr, 0, ...) of a very wide field;
\*   lambda the closure built by the curried apply().
CallbackResult(fn, inv) ==
    CASE fn = "zero"   -> 0
      [] fn = "count"  -> IF inv.fmt = 102 THEN -1 ELSE Len(inv.args) + 1
      [] fn = "huge"   -> 1073741824
      [] fn = "lambda" -> PfnResult(pfnVprintf, LambdaCall(tParams, inv), Len(tParams))

\* a + b does not fit in `int` (b >= 0).
Overflows(a, b) == a > INT_MAX - b

\* What a build can do on signed overflow: two's complement wrap-around, or
\* (the optimiser having assumed it away) an unrelated value.
OverflowModes == {"wrap", "other"}

\* nSum + nCount in `int`; past INT_MAX the behaviour is undefined.
IntAdd(a, b, mode) ==
    IF ~Overflows(a, b) THEN a + b
    ELSE IF mode = "wrap" THEN (a - INT_MAX - 1) + (b - INT_MAX - 1)
    ELSE INT_MAX

\* Mutant of RecordApply: the arguments are handed over in storage order
\* (last to first).
RecordApplyReversed(tuple, fn) ==
    LET args == Tail(tuple)
        inv  == WrapperCall(tuple[1].v, [i \in 1..Len(args) |-> args[Len(args) + 1 - i]])
    IN [inv |-> inv, ret |-> CallbackResult(fn, inv)]

\* Cdeferred_printf_log::apply(fnVprintf): std::apply calls the wrapper with the
\* tuple's elements in order; the callback's result is returned.
\* [inv |-> the callback invocation made, ret |-> the value returned].
RecordApply(tuple, fn) ==
    LET inv == WrapperCall(tuple[1].v, Tail(tuple)) IN
    [inv |-> inv, ret |-> CallbackResult(fn, inv)]

\* Mutant of Accumulate: negative results are added like the others.
AccumulateAll(sum, nCount, mode) ==
    IF nCount < 0 THEN sum + nCount ELSE IntAdd(sum, nCount, mode)

\* The if/else of apply()'s loop body, given the record's result nCount.
Accumulate(sum, nCount, mode) ==
    IF nCount < 0 THEN sum ELSE IntAdd(sum, nCount, mode)

\* Mutant of apply_iteration: the loop is left at the first negative result.
apply_iteration_break(buf, p, pEnd, sum, fn, mode) ==
    LET r == RecordApply(TupleAt(buf, IterDeref(p)), fn) IN
    [inv |-> r.inv, nCount |-> r.ret, nSum |-> Accumulate(sum, r.ret, mode),
     it |-> IF r.ret < 0 THEN pEnd ELSE IterInc(buf, p)]

\* One iteration of apply()'s range-for over an object at cursor p:
\* iLog = *it, nCount = iLog.apply(fnCallback), the if/else, ++it.
apply_iteration(buf, p, pEnd, sum, fn, mode) ==
    LET r == RecordApply(TupleAt(buf, IterDeref(p)), fn) IN
    [inv |-> r.inv, nCount |-> r.ret, nSum |-> Accumulate(sum, r.ret, mode),
     it |-> IterInc(buf, p)]

(* ------------------------------------------------------------------ *)
(* Initial state and operations                                       *)
(* ------------------------------------------------------------------ *)

NoCall == [op |-> "none", size |-> 0, thrown |-> FALSE, afterThrow |-> FALSE]

ApplyCall == [op |-> "apply", size |-> 0, thrown |-> FALSE, afterThrow |-> FALSE]

\* A default-constructed deferred_printf<zuCAPACITY>.
\* The threads that call log().
Threads == {1, 2}

\* The record calls a thread makes at most.
MaxCalls == 2

\* A thread outside log().
IdleThread == [pc |-> "idle", tokens |-> << >>, len |-> 0, n |-> 0, ok |-> << >>]

\* The caller holds no iterator.
NoIter == [p |-> 0, k |-> -1, n0 |-> 0]

Init ==
    /\ zuCAPACITY \in Capacities
    /\ data \in DataAddrs
    /\ intOverflow = "unseen"
    /\ m_zuLength = 0
    /\ m_buffer = [o \in 0..(zuCAPACITY - 1) |-> Uninit]
    /\ pc = "idle"
    /\ fnCallback = "zero"
    /\ it = 0
    /\ itEnd = 0
    /\ nSum = 0
    /\ calls = << >>
    /\ results = << >>
    /\ call = NoCall
    /\ recorded = << >>
    /\ passes = << >>
    /\ failSince = FALSE
    /\ pfnVprintf = "none"
    /\ tParams = << >>
    /\ pfnCalls = << >>
    /\ itUser = NoIter
    /\ thr = [t \in Threads |-> IdleThread]
    /\ lock = 0
    /\ overlapped = FALSE

\* deferred_printf_logger::log(tTokens...)
log(tTokens) ==
    LET size == SizeofTlog(Types(tTokens))
        out  == LogOutcome(m_buffer, m_zuLength, zuCAPACITY, tTokens)
    IN
    /\ pc = "idle"
    /\ m_buffer' = out.buffer
    /\ m_zuLength' = out.length
    /\ call' = [op |-> "log", size |-> size, thrown |-> out.thrown,
                afterThrow |-> (call.op = "log" /\ call.thrown)]
    /\ recorded' = IF out.thrown THEN recorded
                   ELSE Append(recorded, [tokens |-> tTokens, at |-> m_zuLength, size |-> size])
    /\ passes' = IF out.thrown THEN passes ELSE << >>
    /\ failSince' = out.thrown
    /\ UNCHANGED << zuCAPACITY, data, intOverflow, pc, locals >>

\* deferred_printf::operator()(pcFormat, tArgs...)
Record(pcFormat, tArgs) == log(<< Tok("ptr", pcFormat) >> \o tArgs)

\* Mutant of apply_begin: the sum carries over from the previous pass.
apply_begin_keep_sum(fn) ==
    /\ pc = "idle"
    /\ pc' = "loop"
    /\ fnCallback' = fn
    /\ nSum' = IF passes = << >> THEN 0 ELSE passes[1].ret
    /\ it' = begin
    /\ itEnd' = end
    /\ calls' = << >>
    /\ results' = << >>
    /\ call' = ApplyCall
    /\ UNCHANGED << arena, intOverflow, recorded, passes, failSince >>

\* deferred_printf::apply(fnCallback): entry, up to the first loop test.
apply_begin(fn) ==
    /\ pc = "idle"
    /\ pc' = "loop"
    /\ fnCallback' = fn
    /\ nSum' = 0
    /\ it' = begin
    /\ itEnd' = end
    /\ calls' = << >>
    /\ results' = << >>
    /\ call' = ApplyCall
    /\ UNCHANGED << arena, intOverflow, recorded, passes, failSince >>

\* One iteration of apply()'s range-for: it != end, *it, iLog.apply, ++it.
apply_step ==
    /\ pc = "loop"
    /\ IterNe(it, itEnd)
    /\ IF IsObjectAt(m_buffer, IterDeref(it))
       THEN /\ intOverflow' \in
                  IF /\ intOverflow = "unseen"
                     /\ apply_iteration(m_buffer, it, itEnd, nSum, fnCallback, "wrap") /=
                        apply_iteration(m_buffer, it, itEnd, nSum, fnCallback, "other")
                  THEN OverflowModes ELSE {intOverflow}
            /\ LET step == apply_iteration(m_buffer, it, itEnd, nSum, fnCallback, intOverflow')
               IN
               /\ calls' = Append(calls, step.inv)
               /\ results' = Append(results, step.nCount)
               /\ nSum' = step.nSum
               /\ it' = step.it
            /\ pc' = "loop"
       ELSE \* no object lives at the cursor: the virtual call is undefined;
            \* the pass crashes or, inside the storage, the cursor moves by
            \* some amount
            \E n \in (IF IterDeref(it) \in DOMAIN m_buffer THEN 0..VptrSize ELSE {0}) :
                /\ pc' = IF n = 0 THEN "crashed" ELSE "loop"
                /\ it' = it + n
                /\ UNCHANGED << calls, results, nSum, intOverflow >>
    /\ call' = ApplyCall
    /\ UNCHANGED << arena, fnCallback, itEnd, recorded, passes, failSince >>

\* Mutant of apply_return: the arena is emptied once it has been replayed.
apply_return_reset ==
    /\ pc = "loop"
    /\ ~IterNe(it, itEnd)
    /\ pc' = "idle"
    /\ passes' = << [fn |-> fnCallback, calls |-> calls, results |-> results,
                      ret |-> nSum] >>
    /\ failSince' = FALSE
    /\ fnCallback' = "zero"
    /\ it' = 0
    /\ itEnd' = 0
    /\ nSum' = 0
    /\ calls' = << >>
    /\ results' = << >>
    /\ call' = ApplyCall
    /\ m_zuLength' = 0
    /\ UNCHANGED << zuCAPACITY, data, m_buffer, intOverflow, recorded >>

\* apply(): it == end, return nSum.
apply_return ==
    /\ pc = "loop"
    /\ ~IterNe(it, itEnd)
    /\ pc' = "idle"
    /\ passes' = << [fn |-> fnCallback, calls |-> calls, results |-> results,
                      ret |-> nSum] >>
    /\ failSince' = FALSE
    /\ fnCallback' = "zero"
    /\ it' = 0
    /\ itEnd' = 0
    /\ nSum' = 0
    /\ calls' = << >>
    /\ results' = << >>
    /\ call' = ApplyCall
    /\ UNCHANGED << arena, intOverflow, recorded >>

\* deferred_printf::apply(pfnVprintf, tParams...): the lambda is built and
\* handed to the plain apply().
apply_curried(pfn, params) ==
    /\ apply_begin("lambda")
    /\ pfnVprintf' = pfn
    /\ tParams' = params
    /\ pfnCalls' = << >>
    /\ UNCHANGED << itUser, callers >>

\* A loop iteration of a pass; when the callback is the lambda, its call of
\* pfnVprintf is noted.
curried_step ==
    /\ apply_step
    /\ pfnCalls' = IF fnCallback = "lambda" /\ Len(calls') > Len(calls)
                   THEN Append(pfnCalls, LambdaCall(tParams, calls'[Len(calls')]))
                   ELSE pfnCalls
    /\ UNCHANGED << pfnVprintf, tParams, itUser, callers >>

\* The return of a pass; the lambda goes out of scope.
curried_return ==
    /\ apply_return
    /\ pfnVprintf' = "none"
    /\ tParams' = << >>
    /\ pfnCalls' = << >>
    /\ UNCHANGED << itUser, callers >>

Next ==
    \/ \E pcFormat \in FormatRefs, tArgs \in ArgLists :
          Record(pcFormat, tArgs) /\ UNCHANGED << curried, itUser, callers >>
    \/ \E fn \in Callbacks : apply_begin(fn) /\ UNCHANGED << curried, itUser, callers >>
    \/ apply_step /\ UNCHANGED << curried, itUser, callers >>
    \/ apply_return /\ UNCHANGED << curried, itUser, callers >>

Spec == Init /\ [][Next]_vars

\* The instances whose storage is 16-aligned.
InitLive == Init /\ data % 16 = 0

\* The two-argument callback equivalent to the curried calls.
PlainCallbacks == {"count"}

NextCurried ==
    \/ \E pcFormat \in FormatRefs, tArgs \in ArgLists :
          Record(pcFormat, tArgs) /\ UNCHANGED << curried, itUser, callers >>
    \/ \E fn \in PlainCallbacks : apply_begin(fn) /\ UNCHANGED << curried, itUser, callers >>
    \/ \E c \in CurriedCalls : apply_curried(c.pfn, c.params)
    \/ curried_step
    \/ curried_return

\* Passes in both forms of apply().
SpecCurried == InitLive /\ [][NextCurried]_vars

\* The one format of the records in the smaller specifications.
LiveFormats == {101}

\* The caller takes an iterator from begin().
iter_begin ==
    /\ pc = "idle"
    /\ itUser' = [p |-> begin, k |-> 0, n0 |-> Len(recorded)]
    /\ UNCHANGED << zuCAPACITY, data, intOverflow, m_zuLength, m_buffer, pc,
                    locals, call, recorded, passes, failSince, curried, callers >>

\* The caller finds the held iterator different from end() and increments it;
\* without an object at the cursor the virtual call is undefined and the
\* cursor moves by some amount.
iter_inc ==
    /\ pc = "idle"
    /\ itUser.k >= 0
    /\ IterNe(itUser.p, end)
    /\ \E q \in (IF IsObjectAt(m_buffer, IterDeref(itUser.p))
                  THEN {IterInc(m_buffer, itUser.p)}
                  ELSE {itUser.p + n : n \in 1..VptrSize}) :
          itUser' = [itUser EXCEPT !.p = q, !.k = @ + 1]
    /\ UNCHANGED << zuCAPACITY, data, intOverflow, m_zuLength, m_buffer, pc,
                    locals, call, recorded, passes, failSince, curried, callers >>

NextIter ==
    \/ \E pcFormat \in LiveFormats, tArgs \in ArgLists :
          Record(pcFormat, tArgs) /\ UNCHANGED << curried, itUser, callers >>
    \/ iter_begin
    \/ iter_inc

\* Record calls while the caller walks the arena with an iterator of their own.
SpecIter == Init /\ [][NextIter]_vars

\* Mutant of PlacementOffsets: every record is constructed at the start.
PlacementAtStart(lenRead, lenNow) == {0}

\* The values of m_zuLength a statement of log() may work with when another
\* thread writes it unsynchronised: the one this thread read at the capacity
\* test (kept in a register) or the one in memory now.
PlacementOffsets(lenRead, lenNow) == {lenRead, lenNow}

\* log(), first statement, on thread t: the capacity test; std::bad_alloc is
\* thrown at once when the record does not fit.
log_check(t, tTokens) ==
    /\ thr[t].pc = "idle"
    /\ thr[t].n < MaxCalls
    /\ thr' = [thr EXCEPT ![t] =
                 IF Fits(m_zuLength, SizeofTlog(Types(tTokens)), zuCAPACITY)
                 THEN [@ EXCEPT !.pc = "checked", !.tokens = tTokens,
                                !.len = m_zuLength, !.n = @ + 1]
                 ELSE [@ EXCEPT !.n = @ + 1]]
    /\ overlapped' = (overlapped \/ \E u \in Threads \ {t} : thr[u].pc /= "idle")
    /\ UNCHANGED << zuCAPACITY, data, intOverflow, m_zuLength, m_buffer, pc,
                    locals, call, recorded, passes, failSince, curried, itUser >>

\* log(), second statement, on thread t: the placement new at
\* m_buffer.data() + m_zuLength.
log_construct(t) ==
    /\ thr[t].pc = "checked"
    /\ \E o \in PlacementOffsets(thr[t].len, m_zuLength) :
          /\ m_buffer' = Construct(m_buffer, o, thr[t].tokens)
          /\ recorded' = Append(recorded, [tokens |-> thr[t].tokens, at |-> o,
                                           size |-> SizeofTlog(Types(thr[t].tokens))])
    /\ thr' = [thr EXCEPT ![t].pc = "constructed"]
    /\ UNCHANGED << zuCAPACITY, data, intOverflow, m_zuLength, pc, locals, call,
                    passes, failSince, curried, itUser, overlapped >>

\* log(), third statement, on thread t: m_zuLength += sizeof(Tlog); the call
\* returns.
log_update(t) ==
    /\ thr[t].pc = "constructed"
    /\ \E len \in PlacementOffsets(thr[t].len, m_zuLength) :
          m_zuLength' = len + SizeofTlog(Types(thr[t].tokens))
    /\ thr' = [thr EXCEPT ![t].pc = "idle", ![t].ok = Append(@, thr[t].tokens[1].v)]
    /\ UNCHANGED << zuCAPACITY, data, intOverflow, m_buffer, pc, locals, call,
                    recorded, passes, failSince, curried, itUser, overlapped >>

\* The argument lists of the threads' calls: those whose record fits twice.
SmallArgLists == { tArgs \in ArgLists : 2 * SizeofTlog(<< "ptr" >> \o Types(tArgs)) <= MaxCapacity }

NextRace ==
    \/ \E t \in Threads, pcFormat \in LiveFormats, tArgs \in SmallArgLists :
          log_check(t, << Tok("ptr", pcFormat) >> \o tArgs) /\ UNCHANGED lock
    \/ \E t \in Threads : log_construct(t) /\ UNCHANGED lock
    \/ \E t \in Threads : log_update(t) /\ UNCHANGED lock

\* Two threads record into one arena with nothing between them.
SpecRace == InitLive /\ [][NextRace]_vars

\* The thread that replays.
Consumer == 3

\* Mutant of Holds: every thread proceeds as if the lock were its own.
HoldsAlways(l, t) == TRUE

\* Thread t holds the callers' lock.
Holds(l, t) == l = t

\* Thread t takes the free lock before its record call or its pass.
acquire(t) ==
    /\ lock = 0
    /\ lock' = t
    /\ UNCHANGED << zuCAPACITY, data, intOverflow, m_zuLength, m_buffer, pc,
                    locals, call, recorded, passes, failSince, curried, itUser,
                    thr, overlapped >>

\* Thread t gives the lock back once its record call or its pass has returned.
release(t) ==
    /\ lock = t
    /\ IF t \in Threads THEN thr[t].pc = "idle" ELSE pc = "idle"
    /\ lock' = 0
    /\ UNCHANGED << zuCAPACITY, data, intOverflow, m_zuLength, m_buffer, pc,
                    locals, call, recorded, passes, failSince, curried, itUser,
                    thr, overlapped >>

\* The format of producer t's n-th record call: each call site has a string
\* literal of its own.
ProducerFormat(t, n) == 100 * t + n

NextLocked ==
    \/ \E t \in Threads \cup {Consumer} : acquire(t)
    \/ \E t \in Threads \cup {Consumer} : release(t)
    \/ \E t \in Threads :
          /\ Holds(lock, t)
          /\ log_check(t, << Tok("ptr", ProducerFormat(t, thr[t].n + 1)) >>)
          /\ UNCHANGED lock
    \/ \E t \in Threads : Holds(lock, t) /\ log_construct(t) /\ UNCHANGED lock
    \/ \E t \in Threads : Holds(lock, t) /\ log_update(t) /\ UNCHANGED lock
    \/ \E fn \in PlainCallbacks :
          /\ Holds(lock, Consumer)
          /\ apply_begin(fn)
          /\ UNCHANGED << curried, itUser, callers >>
    \/ Holds(lock, Consumer) /\ apply_step /\ UNCHANGED << curried, itUser, callers >>
    \/ Holds(lock, Consumer) /\ apply_return /\ UNCHANGED << curried, itUser, callers >>

\* Two producers and a replaying thread share one arena under the callers' lock.
SpecLocked == InitLive /\ [][NextLocked]_vars

\* The callback of the passes whose termination is examined; it returns.
LiveCallbacks == {"count"}

\* A loop iteration of a plain pass.
plain_step == apply_step /\ UNCHANGED << curried, itUser, callers >>

\* The return of a plain pass.
plain_return == apply_return /\ UNCHANGED << curried, itUser, callers >>

NextLive ==
    \/ \E pcFormat \in LiveFormats, tArgs \in ArgLists :
          Record(pcFormat, tArgs) /\ UNCHANGED << curried, itUser, callers >>
    \/ \E fn \in LiveCallbacks : apply_begin(fn) /\ UNCHANGED << curried, itUser, callers >>
    \/ plain_step
    \/ plain_return

\* apply() runs on the caller's thread: once entered, its loop keeps taking
\* steps until it returns.
SpecLive ==
    InitLive /\ [][NextLive]_vars /\ WF_vars(plain_step) /\ WF_vars(plain_return)

(* ------------------------------------------------------------------ *)
(* Vocabulary of the properties                                       *)
(* ------------------------------------------------------------------ *)

\* What a stored record was given: its format and its argument values in order.
Given(rec) == [fmt |-> rec.tokens[1].v, vals |-> Values(Tail(rec.tokens))]

\* What a callback invocation received.
Received(inv) == [fmt |-> inv.fmt, vals |-> Values(inv.args)]

\* The running pass has visited everything: apply() is about to return nSum.
AtReturn == pc = "loop" /\ it = itEnd

\* The invocations, one per stored record, in the order the records were stored.
InRecordedOrder(invs) ==
    /\ Len(invs) = Len(recorded)
    /\ \A i \in 1..Len(invs) : Received(invs[i]) = Given(recorded[i])

\* A natural number as << high, low >> limbs in base 65536, so that sums past
\* INT_MAX can be written down.
Limbs(n) == << n \div 65536, n % 65536 >>

RECURSIVE SumNonNegLimbs(_)
SumNonNegLimbs(rs) ==
    IF rs = << >> THEN << 0, 0 >>
    ELSE LET rest == SumNonNegLimbs(Tail(rs))
             r    == IF Head(rs) < 0 THEN 0 ELSE Head(rs)
             low  == rest[2] + (r % 65536)
         IN << rest[1] + (r \div 65536) + (low \div 65536), low % 65536 >>

\* The sum of the non-negative results is representable as an int.
SumFitsInt(rs) == SumNonNegLimbs(rs)[1] <= INT_MAX \div 65536

(* ------------------------------------------------------------------ *)
(* Properties                                                         *)
(* ------------------------------------------------------------------ *)

\* C1 - Order preservation: a completed replay-all pass has invoked the callback
\* on the successfully stored records in exactly the order they were recorded,
\* none skipped, repeated or reordered.
C1_OrderPreservation ==
    \A i \in 1..Len(passes) : InRecordedOrder(passes[i].calls)

C1_Witness ==
    /\ passes /= << >>
    /\ Len(recorded) >= 3
    /\ \A i, j \in 1..Len(recorded) : i /= j => Given(recorded[i]) /= Given(recorded[j])

\* C2 - A record call that does not fit throws (capacity exceeded) and leaves the
\* write offset and the buffer exactly as they were; a record call that fits is
\* stored and advances the write offset by its size, also after an earlier
\* call has failed.
C2_CapacityExceeded ==
    [][ call'.op = "log" =>
          IF m_zuLength + call'.size > zuCAPACITY
          THEN call'.thrown /\ m_zuLength' = m_zuLength /\ m_buffer' = m_buffer
          ELSE ~call'.thrown /\ m_zuLength' = m_zuLength + call'.size ]_vars

C2_Witness ==
    /\ call.op = "log"
    /\ ~call.thrown
    /\ call.afterThrow

\* C3 - Capacity boundary: a pass run after a failed record call delivers exactly
\* the records stored before it, in order, with the same formats and argument
\* values as the pass run before the failed call.
C3_ReplayAfterFailure ==
    (AtReturn /\ failSince) =>
        /\ InRecordedOrder(calls)
        /\ \A i \in 1..Len(passes) : calls = passes[i].calls

C3_Witness ==
    /\ AtReturn
    /\ failSince
    /\ passes /= << >>
    /\ Len(calls) >= 2

\* C4 - The write offset never exceeds the capacity, and the stored records are
\* intact objects occupying back-to-back byte ranges from offset 0 to the write
\* offset, each inside the capacity.
C4_ArenaInvariant ==
    /\ m_zuLength <= zuCAPACITY
    /\ \A i \in 1..Len(recorded) :
          /\ recorded[i].at = (IF i = 1 THEN 0 ELSE recorded[i - 1].at + recorded[i - 1].size)
          /\ recorded[i].size > 0
          /\ recorded[i].at + recorded[i].size <= zuCAPACITY
          /\ IsObjectAt(m_buffer, recorded[i].at)
          /\ TupleAt(m_buffer, recorded[i].at) = recorded[i].tokens
    /\ m_zuLength = (IF recorded = << >> THEN 0
                     ELSE recorded[Len(recorded)].at + recorded[Len(recorded)].size)

C4_Witness ==
    /\ Len(recorded) >= 3
    /\ m_zuLength = zuCAPACITY
    /\ call.op = "log"
    /\ call.thrown

\* C5 - Round-trip fidelity: every callback invocation of a pass receives the
\* format reference and the argument values, in positional order, of the record
\* call that created the record, and the record's replay returns what the
\* callback returned.
C5_RoundTrip ==
    \A i \in 1..Len(calls) :
        /\ i <= Len(recorded)
        /\ calls[i].fmt = recorded[i].tokens[1].v
        /\ Len(calls[i].args) = Len(recorded[i].tokens) - 1
        /\ \A k \in 1..Len(calls[i].args) : calls[i].args[k].v = recorded[i].tokens[k + 1].v
        /\ results[i] = CallbackResult(fnCallback, calls[i])

C5_Witness ==
    /\ pc = "loop"
    /\ Len(calls) >= 2
    /\ Len(calls[Len(calls)].args) = 2
    /\ results[Len(calls)] > 0

\* C6 - A pass never aborts on a failing record: it ends having invoked the
\* callback once per stored record, also for those after a negative result, and
\* not at all on an empty arena; it does not end earlier.
C6_NoAbort ==
    /\ pc /= "crashed"
    /\ pc = "loop" =>
          /\ Len(calls) = Len(results)
          /\ Len(calls) <= Len(recorded)
          /\ (it = itEnd) <=> (Len(calls) = Len(recorded))

C6_Witness ==
    /\ AtReturn
    /\ Len(results) >= 3
    /\ results[1] < 0
    /\ results[Len(results)] >= 0

\* C7 - Formatting failures are reported through the result: the value of a pass
\* in which some callback invocation returned a negative value differs from the
\* value of a pass over the same records in which none did.
C7_FailureSignalled ==
    \A i \in 1..Len(passes) :
        ( /\ AtReturn
          /\ \E k \in 1..Len(results) : results[k] < 0
          /\ \A k \in 1..Len(passes[i].results) : passes[i].results[k] >= 0 )
        => nSum /= passes[i].ret

C9_Restartable ==
    (AtReturn /\ ~failSince) =>
        \A i \in 1..Len(passes) :
            /\ calls = passes[i].calls
            /\ fnCallback = passes[i].fn =>
                  (results = passes[i].results /\ nSum = passes[i].ret)

C9_Witness ==
    /\ AtReturn
    /\ ~failSince
    /\ passes /= << >>
    /\ passes[1].fn = fnCallback
    /\ Len(calls) >= 2
    /\ nSum /= 0

\* C10 - record is the only mutator: no step of a replay-all pass (begin, end,
\* dereference, increment, return) changes the write offset or any byte of the
\* buffer.
C10_ReplayIsReadOnly ==
    [][ call'.op = "apply" => (m_zuLength' = m_zuLength /\ m_buffer' = m_buffer) ]_vars

C10_Witness ==
    /\ pc = "idle"
    /\ call.op = "apply"
    /\ passes /= << >>
    /\ Len(passes[1].calls) >= 2

\* The sum of the sizes of the first k stored records.
RECURSIVE SumOfSizes(_)
SumOfSizes(k) == IF k = 0 THEN 0 ELSE SumOfSizes(k - 1) + recorded[k].size

\* C14 - Iteration stays on record boundaries whatever mix of record types is
\* stored: after k increments from begin() the cursor is begin() plus the sizes
\* of the first k records; it equals end() after exactly N increments and never
\* passes it.
C14_OnRecordBoundaries ==
    pc = "loop" =>
        LET k == Len(calls) IN
        /\ k <= Len(recorded)
        /\ it = begin + SumOfSizes(k)
        /\ it <= end
        /\ (it = end) <=> (k = Len(recorded))

C14_Witness ==
    /\ AtReturn
    /\ Len(calls) = 3
    /\ Cardinality({recorded[i].size : i \in 1..3}) >= 2

\* C15 - The size() of a stored record equals the number of bytes by which the
\* record call that created it advanced the write offset.
C15_SizeIsFootprint ==
    [][ (call'.op = "log" /\ ~call'.thrown) =>
            /\ IsObjectAt(m_buffer', m_zuLength)
            /\ SizeAt(m_buffer', m_zuLength) = m_zuLength' - m_zuLength ]_vars

C15_Witness ==
    /\ call.op = "log"
    /\ ~call.thrown
    /\ Len(recorded) >= 2
    /\ SizeAt(m_buffer, recorded[2].at) /= SizeAt(m_buffer, recorded[1].at)

\* C16 - A record call succeeds if and only if write offset + record size <=
\* capacity: a record that exactly fills the remaining capacity is stored, one
\* that is a single byte too large is rejected.
C16_ExactBoundary ==
    [][ call'.op = "log" =>
            /\ ~call'.thrown <=> (m_zuLength + call'.size <= zuCAPACITY)
            /\ (m_zuLength + call'.size = zuCAPACITY) => (m_zuLength' = zuCAPACITY)
            /\ (m_zuLength + call'.size = zuCAPACITY + 1) => (m_zuLength' = m_zuLength) ]_vars

C16_Witness ==
    /\ call.op = "log"
    /\ call.thrown
    /\ m_zuLength + call.size = zuCAPACITY + 1

\* C18 - Every record is constructed at an address that satisfies the alignment
\* requirement of its concrete record type.
C18_Aligned ==
    \A i \in 1..Len(recorded) :
        (data + recorded[i].at) % AlignofTlog(Types(recorded[i].tokens)) = 0

\* C19 - A replay-all pass terminates: each loop step moves the cursor strictly
\* forward (every record size is positive), and a pass that has been entered
\* returns.
C19_Terminates ==
    /\ [][ (pc = "loop" /\ pc' = "loop") => it' > it ]_vars
    /\ (pc = "loop") ~> (pc = "idle")

C19_Witness ==
    /\ pc = "idle"
    /\ passes /= << >>
    /\ Len(passes[1].calls) = 4

\* C11 - The curried replay-all form invokes the given function once per stored
\* record, in insertion order, with the bound parameters followed by the
\* record's format and arguments, and returns the same aggregate as the plain
\* form called with the equivalent two-argument callback.
C11_CurriedForm ==
    (AtReturn /\ fnCallback = "lambda") =>
        /\ Len(pfnCalls) = Len(recorded)
        /\ \A i \in 1..Len(pfnCalls) :
              pfnCalls[i] = tParams \o << Given(recorded[i]).fmt >> \o Given(recorded[i]).vals
        /\ \A i \in 1..Len(passes) :
              passes[i].fn \in PlainCallbacks =>
                  (results = passes[i].results /\ nSum = passes[i].ret)

C11_Witness ==
    /\ AtReturn
    /\ fnCallback = "lambda"
    /\ Len(tParams) = 2
    /\ Len(pfnCalls) >= 2
    /\ passes /= << >>
    /\ passes[1].fn \in PlainCallbacks
    /\ nSum > 0
    /\ \E k \in 1..Len(results) : results[k] < 0

\* C12 - Storage is never reallocated: capacity, storage base and extent never
\* change; so an iterator taken from begin() stays on the records stored since,
\* at k increments it refers to record k+1 (the first one at k = 0), and it
\* equals the current end() exactly when it has passed every record - record
\* calls made after it was taken included.
C12_NoReallocation ==
    /\ [][ /\ zuCAPACITY' = zuCAPACITY
           /\ data' = data
           /\ DOMAIN m_buffer' = DOMAIN m_buffer ]_vars
    /\ [](itUser.k >= 0 =>
            /\ itUser.k <= Len(recorded)
            /\ itUser.p = begin + SumOfSizes(itUser.k)
            /\ (itUser.p = end) <=> (itUser.k = Len(recorded))
            /\ itUser.k < Len(recorded) =>
                  /\ IsObjectAt(m_buffer, IterDeref(itUser.p))
                  /\ TupleAt(m_buffer, IterDeref(itUser.p)) = recorded[itUser.k + 1].tokens)

C12_Witness ==
    /\ itUser.k = Len(recorded)
    /\ itUser.p = end
    /\ itUser.n0 = 1
    /\ Len(recorded) = 3
    /\ call.op = "log" /\ call.thrown

\* Two of the records constructed so far share bytes.
Overwritten ==
    \E i, j \in 1..Len(recorded) :
        /\ i < j
        /\ recorded[j].at < recorded[i].at + recorded[i].size
        /\ recorded[i].at < recorded[j].at + recorded[j].size

\* C17 - record is not safe without exclusion: the capacity test, the
\* construction and the offset update are separate steps, and it is when two
\* unsynchronised calls overlap, and only then, that a record gets overwritten
\* or the write offset ends beyond the capacity.
C17_UnsafeWhenOverlapping ==
    (Overwritten \/ m_zuLength > zuCAPACITY) => overlapped

C17_Witness ==
    /\ \A t \in Threads : thr[t].pc = "idle"
    /\ \E i, j \in 1..Len(recorded) : i < j /\ recorded[i].at = recorded[j].at
    /\ m_zuLength > zuCAPACITY

\* The formats the running pass has handed to the callback from producer t's
\* records, in the order of the invocations.
ReplayedOf(t) ==
    LET mine(inv) == inv.fmt \div 100 = t
        invs == SelectSeq(calls, mine)
    IN [i \in 1..Len(invs) |-> invs[i].fmt]

\* C13 - With each record call and each replay-all pass made under one lock,
\* every interleaving of two producers and a replaying thread keeps the write
\* offset within the capacity and the records apart, and a pass replays of each
\* producer exactly the records it stored, in the order of its calls.
C13_LockedInterleavings ==
    /\ m_zuLength <= zuCAPACITY
    /\ ~Overwritten
    /\ \A i \in 1..Len(recorded) : recorded[i].at + recorded[i].size <= zuCAPACITY
    /\ \A t \in Threads :
          /\ \A i, j \in 1..Len(thr[t].ok) : i < j => thr[t].ok[i] < thr[t].ok[j]
          /\ AtReturn => ReplayedOf(t) = thr[t].ok

C13_Witness ==
    /\ AtReturn
    /\ Len(calls) = 3
    /\ calls[1].fmt = ProducerFormat(1, 1)
    /\ calls[2].fmt = ProducerFormat(2, 1)
    /\ calls[3].fmt = ProducerFormat(1, 2)

====
